---- MODULE Spec2Model ----
(***************************************************************************)
(* Model of src/Common/filesystemHelpers.cpp: getStatVFS,                  *)
(* createTemporaryFile, getMountPoint, getFilesystemName, pathStartsWith.  *)
(*                                                                         *)
(* A path is a record [abs, comps]: abs says whether it has a root         *)
(* directory, comps is the sequence of filenames that iterating a          *)
(* std::filesystem::path yields after the root: names, ".", ".." and, for  *)
(* a path written with a trailing separator, a final empty filename.       *)
(* Filenames are sequences of characters.  The file system is a tree of    *)
(* directories without symbolic links; a directory is the sequence of      *)
(* names leading to it from the root, <<>> being the root.                 *)
(***************************************************************************)
EXTENDS Integers, Sequences, FiniteSets, TLC

VARIABLES dirs, mp, ps, ft, sv, tf

vars == <<dirs, mp, ps, ft, sv, tf>>

----------------------------------------------------------------------------
(* Bounds *)

\* longest input path, in filenames (a trailing separator not counted)
MaxLen == 3
\* depth of the directory tree
MaxDepth == 3
\* longest path given to pathStartsWith, in filenames
MaxCmpLen == 2
\* most entries in the mount table
MaxTable == 2
\* most calls of createTemporaryFile in one run
MaxCalls == 2

----------------------------------------------------------------------------
(* Paths *)

A == <<"a">>
AB == <<"a", "b">>
DOT == <<".">>
DOTDOT == <<".", ".">>
EMPTY == <<>>
SLASH == <<"/">>

Names == {A, AB}
Filenames == Names \cup {DOT, DOTDOT}

SeqsUpTo(S, n) == UNION {[1..k -> S] : k \in 0..n}

\* the paths of at most n filenames, with and without a trailing separator
InputPaths(n) ==
    {[abs |-> ab, comps |-> c] : ab \in BOOLEAN, c \in SeqsUpTo(Filenames, n)}
    \cup {[abs |-> ab, comps |-> Append(c, EMPTY)] :
            ab \in BOOLEAN, c \in SeqsUpTo(Filenames, n) \ {<<>>}}

AbsPaths(n) == {p \in InputPaths(n) : p.abs}

NodePaths == SeqsUpTo(Names, MaxDepth)

Front(s) == SubSeq(s, 1, Len(s) - 1)

\* std::filesystem::path::parent_path of an absolute path; the root is its own parent
Parent(d) == IF d = <<>> THEN <<>> ELSE Front(d)

IsPrefix(s, t) == Len(s) <= Len(t) /\ SubSeq(t, 1, Len(s)) = s

PrefixesOf(d) == {SubSeq(d, 1, k) : k \in 0..Len(d)}

\* the directory trees a run starts from: one chain of directories, or every directory
DirSets == {PrefixesOf(q) : q \in NodePaths} \cup {NodePaths}

Devs == {"dev1", "dev2"}

\* an optional value: <<>> is none, <<x>> is x
None == <<>>
Some(x) == <<x>>

\* the outcomes of a stat or statvfs system call
SysOutcomes == {"ok", "EINTR", "EACCES"}

----------------------------------------------------------------------------
(* Path resolution *)

\* Follows the filenames of rest from directory cur for as long as they exist.
RECURSIVE Walk(_, _, _)
Walk(cur, rest, ds) ==
    IF rest = <<>> THEN [at |-> cur, rest |-> <<>>]
    ELSE LET c == Head(rest) IN
         IF c = DOT \/ c = EMPTY THEN Walk(cur, Tail(rest), ds)
         ELSE IF c = DOTDOT THEN Walk(Parent(cur), Tail(rest), ds)
         ELSE IF Append(cur, c) \in ds THEN Walk(Append(cur, c), Tail(rest), ds)
         ELSE [at |-> cur, rest |-> rest]

\* std::filesystem::canonical of an absolute path: None when it throws (no such directory)
Canonical(p, ds) ==
    LET w == Walk(<<>>, p.comps, ds)
    IN  IF w.rest = <<>> THEN Some(w.at) ELSE None

\* std::filesystem::path::lexically_normal of the absolute path stack/rest
RECURSIVE LexicallyNormal(_, _, _)
LexicallyNormal(stack, rest, trailing) ==
    IF rest = <<>>
    THEN IF trailing /\ stack # <<>> THEN Append(stack, EMPTY) ELSE stack
    ELSE LET c == Head(rest) IN
         IF c = DOT \/ c = EMPTY THEN LexicallyNormal(stack, Tail(rest), TRUE)
         ELSE IF c = DOTDOT THEN LexicallyNormal(Parent(stack), Tail(rest), TRUE)
         ELSE LexicallyNormal(Append(stack, c), Tail(rest), FALSE)

\* std::filesystem::weakly_canonical of an absolute path, as its filenames
WeaklyCanonical(p, ds) ==
    LET w == Walk(<<>>, p.comps, ds)
    IN  IF w.rest = <<>> THEN w.at ELSE LexicallyNormal(w.at, w.rest, FALSE)

\* what begin()..end() of an absolute path yields
Iter(comps) == <<SLASH>> \o comps

----------------------------------------------------------------------------
(* Initial state *)

MpIdle ==
    [pc |-> "idle", arg |-> None, path |-> <<>>, devid |-> None,
     dev |-> [k \in 0..MaxDepth |-> "dev1"], result |-> None, err |-> "none",
     errno |-> "none", os |-> 0, asc |-> 0, prev |-> None]

PsIdle == [pc |-> "idle", a |-> None, b |-> None, result |-> None]

FtIdle ==
    [pc |-> "idle", linux |-> TRUE, table |-> <<>>, mount_point |-> "",
     opened |-> FALSE, read |-> 0, fs_info |-> None, out |-> None]

SvIdle == [pc |-> "idle", arg |-> None, ret |-> 0, errno |-> "none", out |-> None]

TfIdle ==
    [pc |-> "idle", dir |-> <<>>, handle |-> None, err |-> "none",
     existed |-> FALSE, made |-> 0, prev |-> None, prevMade |-> 0, calls |-> 0]

Init ==
    /\ dirs \in DirSets
    /\ mp = MpIdle
    /\ ps = PsIdle
    /\ ft = FtIdle
    /\ sv = SvIdle
    /\ tf = TfIdle

----------------------------------------------------------------------------
(* getMountPoint *)

\* the device ids the OS may report for the ancestors of a directory of depth n
DevChains(n) ==
    {d \in [0..MaxDepth -> Devs] : \A k \in 0..MaxDepth : k > n => d[k] = "dev1"}

\* a variant that canonicalizes before it looks at is_relative
GetMountPointEnter_CanonicalFirst(p, d, prev) ==
    LET c == Canonical([abs |-> TRUE, comps |-> p.comps], dirs)
        m == [MpIdle EXCEPT !.arg = Some(p), !.prev = prev, !.os = 1]
    IN  IF c = None THEN [m EXCEPT !.pc = "error", !.err = "filesystem_error"]
        ELSE IF ~p.abs THEN [m EXCEPT !.pc = "error", !.err = "LOGICAL_ERROR"]
        ELSE [m EXCEPT !.pc = "stat_self", !.path = c[1], !.dev = d]

\* lines 59-62: the is_relative check, then std::filesystem::canonical
GetMountPointEnter(p, d, prev) ==
    LET m == [MpIdle EXCEPT !.arg = Some(p), !.prev = prev]
    IN  IF ~p.abs
        THEN [m EXCEPT !.pc = "error", !.err = "LOGICAL_ERROR"]
        ELSE LET c == Canonical(p, dirs)
             IN  IF c = None
                 THEN [m EXCEPT !.pc = "error", !.err = "filesystem_error", !.os = 1]
                 ELSE [m EXCEPT !.pc = "stat_self", !.path = c[1], !.dev = d, !.os = 1]

\* a variant that calls stat again when a signal interrupted it
get_device_id_RetryOnEintr(m, o, next) ==
    IF o = "ok" THEN [next EXCEPT !.os = m.os + 1]
    ELSE IF o = "EINTR" THEN [m EXCEPT !.errno = o, !.os = m.os + 1]
    ELSE [m EXCEPT !.pc = "error", !.err = "SYSTEM_ERROR", !.errno = o, !.os = m.os + 1]

\* lines 64-70: one stat call; next is the state the caller goes on with when
\* stat succeeds, any failure of stat throws SYSTEM_ERROR
get_device_id(m, o, next) ==
    IF o = "ok" THEN [next EXCEPT !.os = m.os + 1]
    ELSE [m EXCEPT !.pc = "error", !.err = "SYSTEM_ERROR", !.errno = o, !.os = m.os + 1]

\* a variant that returns the parent when the device ids differ
LoopBody_ReturnParent(m) ==
    LET parent == Parent(m.path)
    IN  IF m.devid[1] # m.dev[Len(parent)]
        THEN [m EXCEPT !.pc = "done", !.result = Some(parent)]
        ELSE [m EXCEPT !.path = parent, !.asc = m.asc + 1]

\* a variant that stops where the device ids are equal
LoopBody_StopOnSame(m) ==
    LET parent == Parent(m.path)
    IN  IF m.devid[1] = m.dev[Len(parent)]
        THEN [m EXCEPT !.pc = "done", !.result = Some(m.path)]
        ELSE [m EXCEPT !.path = parent, !.asc = m.asc + 1]

\* a variant that ascends once more after the device ids differ
LoopBody_SkipFirstChange(m) ==
    LET parent == Parent(m.path)
    IN  IF m.devid[1] # m.dev[Len(parent)] /\ m.asc > 0
        THEN [m EXCEPT !.pc = "done", !.result = Some(m.path)]
        ELSE [m EXCEPT !.path = parent, !.asc = m.asc + 1]

\* lines 77-81: the loop body once the parent's stat has succeeded
LoopBody(m) ==
    LET parent == Parent(m.path)
    IN  IF m.devid[1] # m.dev[Len(parent)]
        THEN [m EXCEPT !.pc = "done", !.result = Some(m.path)]
        ELSE [m EXCEPT !.path = parent, !.asc = m.asc + 1]

\* a caller invokes getMountPoint(p) while the OS reports the device ids d for
\* the ancestors of the canonical form of p
GetMountPointCall ==
    /\ mp.pc = "idle"
    /\ \E p \in InputPaths(MaxLen) :
         LET c == IF p.abs THEN Canonical(p, dirs) ELSE None
         IN  \E d \in (IF c # None THEN DevChains(Len(c[1])) ELSE {MpIdle.dev}) :
                mp' = GetMountPointEnter(p, d, None)
    /\ UNCHANGED <<dirs, ps, ft, sv, tf>>

\* line 74: device_id = get_device_id(absolute_path)
GetMountPointStatSelf ==
    /\ mp.pc = "stat_self"
    /\ \E o \in SysOutcomes :
         mp' = get_device_id(mp, o,
                  [mp EXCEPT !.pc = "loop", !.devid = Some(mp.dev[Len(mp.path)])])
    /\ UNCHANGED <<dirs, ps, ft, sv, tf>>

\* lines 75-82: one iteration of the loop
GetMountPointLoop ==
    /\ mp.pc = "loop"
    /\ mp.path # <<>>
    /\ \E o \in SysOutcomes : mp' = get_device_id(mp, o, LoopBody(mp))
    /\ UNCHANGED <<dirs, ps, ft, sv, tf>>

\* lines 75, 84: has_relative_path is false, the root is returned
GetMountPointAtRoot ==
    /\ mp.pc = "loop"
    /\ mp.path = <<>>
    /\ mp' = [mp EXCEPT !.pc = "done", !.result = Some(mp.path)]
    /\ UNCHANGED <<dirs, ps, ft, sv, tf>>

\* the caller passes the returned mount point to getMountPoint again, the
\* state of the OS being the same
GetMountPointAgain ==
    /\ mp.pc = "done"
    /\ mp.prev = None
    /\ mp' = GetMountPointEnter([abs |-> TRUE, comps |-> mp.result[1]], mp.dev, mp.result)
    /\ UNCHANGED <<dirs, ps, ft, sv, tf>>

\* the call is over: the result or the exception is with the caller
GetMountPointReturn ==
    /\ mp.pc \in {"done", "error"}
    /\ mp' = MpIdle
    /\ UNCHANGED <<dirs, ps, ft, sv, tf>>

NextMount ==
    \/ GetMountPointCall
    \/ GetMountPointStatSelf
    \/ GetMountPointLoop
    \/ GetMountPointAtRoot
    \/ GetMountPointAgain
    \/ GetMountPointReturn

SpecMount == Init /\ [][NextMount]_vars

\* the canonical form of the argument of the running call
MpCanon == Canonical(mp.arg[1], dirs)[1]

\* the device id the OS reports for the canonical form of the argument
MpCanonDev == mp.dev[Len(MpCanon)]

\* C1: a mount point returned is an ancestor of, or equal to, the canonical
\* form of the argument, and getMountPoint of a returned mount point, the OS
\* state being the same, returns that mount point again.
C1_MountPointIdempotent ==
    mp.pc = "done" =>
        /\ IsPrefix(mp.result[1], MpCanon)
        /\ mp.prev # None => mp.result = mp.prev

\* a second call has returned for a mount point below the root that the first
\* call reached by ascending
C1_Witness ==
    /\ mp.pc = "done"
    /\ mp.prev # None
    /\ mp.result = mp.prev
    /\ Len(mp.result[1]) = 1
    /\ mp.dev[2] = mp.dev[1]

\* C2: the walk makes at most depth(canonical p) ascents and returns the
\* nearest device boundary: an ancestor-or-self r of canonical p such that
\* every path from r down to canonical p has the device id of canonical p,
\* and r is the root or the parent of r has another device id.
C2_NearestDeviceBoundary ==
    /\ mp.pc \in {"loop", "done"} => mp.asc <= Len(MpCanon)
    /\ mp.pc = "done" =>
        LET r == mp.result[1]
        IN  /\ IsPrefix(r, MpCanon)
            /\ mp.asc = Len(MpCanon) - Len(r)
            /\ \A k \in Len(r)..Len(MpCanon) : mp.dev[k] = MpCanonDev
            /\ r = <<>> \/ mp.dev[Len(r) - 1] # MpCanonDev

\* the scenario: a path of depth 3 shares its device with its parent, the
\* grandparent is on another device, and the parent is returned
C2_Witness ==
    /\ mp.pc = "done"
    /\ Len(MpCanon) = 3
    /\ mp.dev[3] = mp.dev[2]
    /\ mp.dev[2] # mp.dev[1]
    /\ mp.result = Some(Front(MpCanon))

\* without a device change the root is returned
C2_WitnessRoot ==
    /\ mp.pc = "done"
    /\ Len(MpCanon) = 3
    /\ mp.result = Some(<<>>)
    /\ mp.asc = 3

\* C3: getMountPoint of a relative path fails with LOGICAL_ERROR before any
\* query of the OS: no canonicalization, no stat, no path returned.
C3_RelativeIsLogicalError ==
    (mp.pc # "idle" /\ ~mp.arg[1].abs) =>
        /\ mp.pc = "error"
        /\ mp.err = "LOGICAL_ERROR"
        /\ mp.os = 0
        /\ mp.result = None

\* a relative path that names an existing directory was rejected
C3_Witness ==
    /\ mp.pc = "error"
    /\ mp.err = "LOGICAL_ERROR"
    /\ ~mp.arg[1].abs
    /\ mp.arg[1].comps = <<A>>
    /\ <<A>> \in dirs

C10_NoAncestorOnSameDevice ==
    mp.pc = "done" =>
        \A k \in 0..(Len(mp.result[1]) - 1) : mp.dev[k] # MpCanonDev

\* C10 as amended: the mount point returned is the topmost ancestor that is
\* joined to the canonical path by ancestors of the same device id only: a
\* proper ancestor of it with the device id of the canonical path is separated
\* from it by an ancestor with another device id.
C10_TopmostOfSameDeviceRun ==
    mp.pc = "done" =>
        LET n == Len(mp.result[1])
        IN  /\ mp.dev[n] = MpCanonDev
            /\ \A k \in 0..(n - 1) :
                  mp.dev[k] = MpCanonDev => \E j \in (k + 1)..(n - 1) : mp.dev[j] # MpCanonDev

\* the device id of the path reappears at the root behind another device
C10_Witness ==
    /\ mp.pc = "done"
    /\ mp.prev = None
    /\ Len(MpCanon) = 3
    /\ mp.dev[3] = mp.dev[2]
    /\ mp.dev[1] # mp.dev[2]
    /\ mp.dev[0] = mp.dev[3]
    /\ Len(mp.result[1]) = 2

----------------------------------------------------------------------------
(* pathStartsWith *)

Min(x, y) == IF x <= y THEN x ELSE y

\* std::mismatch(first1, last1, first2, last2): the first index at which the
\* sequences differ or one of them ends
Mismatch(s, t) ==
    CHOOSE i \in 1..(Min(Len(s), Len(t)) + 1) :
        /\ i > Min(Len(s), Len(t)) \/ s[i] # t[i]
        /\ \A j \in 1..(i - 1) : s[j] = t[j]

\* lines 111-120, for absolute paths
pathStartsWith(path, prefix_path, ds) ==
    LET absolute_path == Iter(WeaklyCanonical(path, ds))
        absolute_prefix_path == Iter(WeaklyCanonical(prefix_path, ds))
        prefix_path_mismatch_it == Mismatch(absolute_path, absolute_prefix_path)
    IN  prefix_path_mismatch_it = Len(absolute_prefix_path) + 1

\* lines 122-128: a caller invokes pathStartsWith(a, b)
PathStartsWithCall ==
    /\ ps.pc = "idle"
    /\ \E a \in AbsPaths(MaxCmpLen), b \in AbsPaths(MaxCmpLen) :
          ps' = [pc |-> "done", a |-> Some(a), b |-> Some(b),
                 result |-> Some(pathStartsWith(a, b, dirs))]
    /\ UNCHANGED <<dirs, mp, ft, sv, tf>>

PathStartsWithReturn ==
    /\ ps.pc = "done"
    /\ ps' = PsIdle
    /\ UNCHANGED <<dirs, mp, ft, sv, tf>>

NextPrefix == PathStartsWithCall \/ PathStartsWithReturn

SpecPrefix == Init /\ [][NextPrefix]_vars

\* the directory an absolute path denotes, whether it exists or not: its names
\* after "." and ".." are resolved, a trailing separator making no difference
Location(p) ==
    LET n == LexicallyNormal(<<>>, p.comps, FALSE)
    IN  IF n # <<>> /\ n[Len(n)] = EMPTY THEN Front(n) ELSE n

\* s is a proper string prefix of t
IsProperStringPrefix(s, t) == Len(s) < Len(t) /\ SubSeq(t, 1, Len(s)) = s

\* C4: pathStartsWith(a, b) is true whenever b denotes a true ancestor
\* directory of a, however b is written and whether or not the paths exist,
\* and false for siblings of which one name is a string prefix of the other.
C4_ComponentPrefix ==
    ps.pc = "done" =>
        LET la == Location(ps.a[1])
            lb == Location(ps.b[1])
        IN  /\ (IsPrefix(lb, la) /\ lb # la) => ps.result = Some(TRUE)
            /\ ( /\ Len(la) = Len(lb)
                 /\ la # <<>>
                 /\ Front(la) = Front(lb)
                 /\ IsProperStringPrefix(lb[Len(lb)], la[Len(la)]) )
               => ps.result = Some(FALSE)

\* C4, second half alone: siblings that share a string prefix
C4_SiblingsAreNotPrefixes ==
    ps.pc = "done" =>
        LET la == Location(ps.a[1])
            lb == Location(ps.b[1])
        IN  ( /\ Len(la) = Len(lb)
              /\ la # <<>>
              /\ Front(la) = Front(lb)
              /\ IsProperStringPrefix(lb[Len(lb)], la[Len(la)]) )
            => ps.result = Some(FALSE)

\* C4, first half for prefixes that exist or are written without a trailing
\* separator, "." or ".." at the end
C4_AncestorWithoutTrailing ==
    ps.pc = "done" =>
        LET la == Location(ps.a[1])
            lb == Location(ps.b[1])
            wb == WeaklyCanonical(ps.b[1], dirs)
        IN  (IsPrefix(lb, la) /\ lb # la /\ (wb = <<>> \/ wb[Len(wb)] # EMPTY))
               => ps.result = Some(TRUE)

----------------------------------------------------------------------------
(* getFilesystemName *)

MountDirs == {"/", "/a", "/a/"}
FsNames == {"/dev/sda1", "tmpfs"}
MountEntries == [mnt_dir : MountDirs, mnt_fsname : FsNames]
MountTables == SeqsUpTo(MountEntries, MaxTable)

Return(v) == Some([kind |-> "return", value |-> v])
Throw(c, m) == Some([kind |-> "throw", code |-> c, message |-> m])
Crash == Some([kind |-> "crash"])

CannotOpenMtab == <<"Cannot open /etc/mtab to get name of filesystem">>
CannotFindName(m) == <<"Cannot find name of filesystem by mount point ", m>>
LinuxOnly == <<"The function getFilesystemName is supported on Linux only">>

\* lines 93-99 and 107: the platform, then setmntent
GetFilesystemNameCall ==
    /\ ft.pc = "idle"
    /\ \E m \in MountDirs :
        \/ ft' = [FtIdle EXCEPT !.pc = "done", !.linux = FALSE, !.mount_point = m,
                                !.out = Throw("NOT_IMPLEMENTED", LinuxOnly)]
        \/ ft' = [FtIdle EXCEPT !.pc = "done", !.mount_point = m,
                                !.out = Throw("SYSTEM_ERROR", CannotOpenMtab)]
        \/ \E t \in MountTables :
              ft' = [FtIdle EXCEPT !.pc = "scan", !.mount_point = m, !.table = t,
                                   !.opened = TRUE]
    /\ UNCHANGED <<dirs, mp, ps, sv, tf>>

\* a variant that reads the whole table and so keeps the last matching entry
ScanStep_ToTheEnd(f) ==
    IF f.read < Len(f.table)
    THEN [f EXCEPT !.read = f.read + 1,
                   !.fs_info = IF f.table[f.read + 1].mnt_dir = f.mount_point
                                  \/ f.fs_info = None
                                  \/ f.fs_info[1].mnt_dir # f.mount_point
                               THEN Some(f.table[f.read + 1]) ELSE f.fs_info]
    ELSE [f EXCEPT !.pc = "scanned"]

\* line 100: one evaluation of the loop condition: getmntent_r reads the next
\* entry into fs_info, or returns null at the end of the table and leaves
\* fs_info as it was
ScanStep(f) ==
    IF f.read < Len(f.table)
    THEN LET e == f.table[f.read + 1]
         IN  [f EXCEPT !.read = f.read + 1, !.fs_info = Some(e),
                       !.pc = IF e.mnt_dir # f.mount_point THEN "scan" ELSE "scanned"]
    ELSE [f EXCEPT !.pc = "scanned"]

GetFilesystemNameScan ==
    /\ ft.pc = "scan"
    /\ ft' = ScanStep(ft)
    /\ UNCHANGED <<dirs, mp, ps, sv, tf>>

\* lines 102-105.  When no entry was read fs_info is uninitialized and line 103
\* reads it: the comparison may crash, may find a difference and throw, or may
\* find equality and return whatever fs_info.mnt_fsname points to.
GetFilesystemNameFinish ==
    /\ ft.pc = "scanned"
    /\ IF ft.fs_info = None
       THEN \/ ft' = [ft EXCEPT !.pc = "done", !.out = Crash]
            \/ ft' = [ft EXCEPT !.pc = "done",
                        !.out = Throw("SYSTEM_ERROR", CannotFindName(ft.mount_point))]
            \/ \E g \in FsNames \cup {"garbage"} :
                  ft' = [ft EXCEPT !.pc = "done", !.out = Return(g)]
       ELSE IF ft.fs_info[1].mnt_dir # ft.mount_point
       THEN ft' = [ft EXCEPT !.pc = "done",
                     !.out = Throw("SYSTEM_ERROR", CannotFindName(ft.mount_point))]
       ELSE ft' = [ft EXCEPT !.pc = "done", !.out = Return(ft.fs_info[1].mnt_fsname)]
    /\ UNCHANGED <<dirs, mp, ps, sv, tf>>

GetFilesystemNameReturn ==
    /\ ft.pc = "done"
    /\ ft' = FtIdle
    /\ UNCHANGED <<dirs, mp, ps, sv, tf>>

NextTable ==
    \/ GetFilesystemNameCall
    \/ GetFilesystemNameScan
    \/ GetFilesystemNameFinish
    \/ GetFilesystemNameReturn

SpecTable == Init /\ [][NextTable]_vars

\* the indices of the entries of the table whose mount directory is the string asked for
FtMatches == {i \in 1..Len(ft.table) : ft.table[i].mnt_dir = ft.mount_point}

FtFirstMatch == CHOOSE i \in FtMatches : \A j \in FtMatches : i <= j

\* C7: for a mount point that occurs in the table the result is the source
\* name of the lowest-index entry whose mount directory equals the string
\* asked for, and the entries after it are not read.
C7_FirstMatchWins ==
    FtMatches # {} =>
        /\ ft.read <= FtFirstMatch
        /\ ft.pc = "done" =>
              /\ ft.out = Return(ft.table[FtFirstMatch].mnt_fsname)
              /\ ft.read = FtFirstMatch

\* the table lists the directory twice with different sources, and behind an
\* entry whose directory differs from it by a trailing separator only
C7_Witness ==
    /\ ft.pc = "done"
    /\ Cardinality(FtMatches) = 2
    /\ ft.table[1].mnt_fsname # ft.table[2].mnt_fsname
    /\ ft.out = Return(ft.table[1].mnt_fsname)

\* C8: a lookup that finds no entry after a full scan of any table, an empty
\* one included, fails with SYSTEM_ERROR, which differs from the failure to
\* open the table; without a mount table the call fails with NOT_IMPLEMENTED.
C8_NoMatchIsSystemError ==
    ft.pc = "done" =>
        /\ (ft.opened /\ FtMatches = {}) =>
              /\ ft.out = Throw("SYSTEM_ERROR", CannotFindName(ft.mount_point))
              /\ ft.out # Throw("SYSTEM_ERROR", CannotOpenMtab)
        /\ ~ft.linux => ft.out = Throw("NOT_IMPLEMENTED", LinuxOnly)

\* C8 for the tables that have an entry
C8_NoMatchInNonEmptyTable ==
    ft.pc = "done" =>
        /\ (ft.opened /\ FtMatches = {} /\ ft.table # <<>>) =>
              /\ ft.out = Throw("SYSTEM_ERROR", CannotFindName(ft.mount_point))
              /\ ft.out # Throw("SYSTEM_ERROR", CannotOpenMtab)
        /\ ~ft.linux => ft.out = Throw("NOT_IMPLEMENTED", LinuxOnly)

----------------------------------------------------------------------------
(* getStatVFS *)

\* the snapshots statvfs may fill in, as numbers of free blocks
FreeBlocks == {0, 1}

\* a variant that reports every failure of statvfs, an interruption included
OnStatvfsFailure_NoRetry(s) ==
    [s EXCEPT !.pc = "error", !.out = Throw("CANNOT_STATVFS", s.arg[1])]

\* lines 31-33: statvfs has failed
OnStatvfsFailure(s) ==
    IF s.errno = "EINTR"
    THEN [s EXCEPT !.pc = "call"]
    ELSE [s EXCEPT !.pc = "error", !.out = Throw("CANNOT_STATVFS", s.arg[1])]

\* a caller invokes getStatVFS(path)
GetStatVFSCall ==
    /\ sv.pc = "idle"
    /\ \E p \in AbsPaths(MaxCmpLen) : sv' = [SvIdle EXCEPT !.pc = "call", !.arg = Some(p)]
    /\ UNCHANGED <<dirs, mp, ps, ft, tf>>

\* line 29: the statvfs system call and the test of its return value; line 35
\* when it is 0
GetStatVFSSyscall ==
    /\ sv.pc = "call"
    /\ \/ \E f \in FreeBlocks : sv' = [sv EXCEPT !.pc = "done", !.ret = 0, !.out = Return(f)]
       \/ \E e \in SysOutcomes \ {"ok"} : sv' = [sv EXCEPT !.pc = "failed", !.ret = -1, !.errno = e]
    /\ UNCHANGED <<dirs, mp, ps, ft, tf>>

GetStatVFSFailed ==
    /\ sv.pc = "failed"
    /\ sv' = OnStatvfsFailure(sv)
    /\ UNCHANGED <<dirs, mp, ps, ft, tf>>

GetStatVFSReturn ==
    /\ sv.pc \in {"done", "error"}
    /\ sv' = SvIdle
    /\ UNCHANGED <<dirs, mp, ps, ft, tf>>

NextStatVFS ==
    \/ GetStatVFSCall
    \/ GetStatVFSSyscall
    \/ GetStatVFSFailed
    \/ GetStatVFSReturn

\* the calling thread runs: a system call that was entered returns, and the
\* code after it is executed
SpecStatVFS ==
    /\ Init
    /\ [][NextStatVFS]_vars
    /\ WF_vars(GetStatVFSSyscall)
    /\ WF_vars(GetStatVFSFailed)

SvInterrupted == sv.pc = "failed" /\ sv.errno = "EINTR"

\* C6: getStatVFS calls statvfs again for as long as it fails with EINTR and
\* never reports EINTR; the first other failure ends the call with
\* CANNOT_STATVFS carrying the path, without another attempt; and when the
\* interruptions do not go on forever a call that was started ends, with the
\* stats or with CANNOT_STATVFS.
C6_RetryOnEintrOnly ==
    /\ [](sv.pc = "error" =>
            (sv.errno = "EACCES" /\ sv.out = Throw("CANNOT_STATVFS", sv.arg[1])))
    /\ [](sv.pc = "done" => (sv.ret = 0 /\ sv.out[1].kind = "return"))
    /\ [][SvInterrupted => (sv'.pc = "call" /\ sv'.out = None)]_vars
    /\ [][(sv.pc = "failed" /\ sv.errno # "EINTR") => sv'.pc = "error"]_vars
    /\ (<>[]~SvInterrupted) => (sv.pc = "call" ~> sv.pc \in {"done", "error"})

\* statvfs succeeded after an interruption
C6_Witness ==
    /\ sv.pc = "done"
    /\ sv.errno = "EINTR"

----------------------------------------------------------------------------
(* createTemporaryFile *)

\* a variant that makes the directory itself only
createDirectories_NoAncestors(ds, d) == ds \cup {d}

\* Poco::File::createDirectories when it succeeds: the directory and its
\* missing ancestors exist afterwards
createDirectories(ds, d) == ds \cup PrefixesOf(d)

\* a caller invokes createTemporaryFile(path)
CreateTemporaryFileCall ==
    /\ tf.pc = "idle"
    /\ tf.calls < MaxCalls
    /\ \E d \in NodePaths \ {<<>>} :
          tf' = [TfIdle EXCEPT !.pc = "mkdirs", !.dir = d, !.existed = d \in dirs,
                               !.prev = tf.prev, !.prevMade = tf.prevMade,
                               !.calls = tf.calls + 1]
    /\ UNCHANGED <<dirs, mp, ps, ft, sv>>

\* line 51: nothing to do for a directory that exists; otherwise the
\* directories are made from the top, and a failure leaves those made before it
CreateTemporaryFileMkdirs ==
    /\ tf.pc = "mkdirs"
    /\ IF tf.dir \in dirs
       THEN /\ tf' = [tf EXCEPT !.pc = "construct"]
            /\ UNCHANGED dirs
       ELSE \/ /\ dirs' = createDirectories(dirs, tf.dir)
               /\ tf' = [tf EXCEPT !.pc = "construct", !.made = Cardinality(dirs' \ dirs)]
            \/ \E k \in 0..(Len(tf.dir) - 1) :
               /\ dirs' = createDirectories(dirs, SubSeq(tf.dir, 1, k))
               /\ tf' = [tf EXCEPT !.pc = "error", !.err = "Poco::FileException",
                                   !.made = Cardinality(dirs' \ dirs)]
    /\ UNCHANGED <<mp, ps, ft, sv>>

\* line 54: the TemporaryFile is constructed and returned
CreateTemporaryFileConstruct ==
    /\ tf.pc = "construct"
    /\ tf' = [tf EXCEPT !.pc = "done", !.handle = Some(tf.dir)]
    /\ UNCHANGED <<dirs, mp, ps, ft, sv>>

\* the call is over; the caller remembers the directory of its last handle and
\* how many directories that call made
CreateTemporaryFileReturn ==
    /\ tf.pc \in {"done", "error"}
    /\ tf' = [TfIdle EXCEPT !.prev = IF tf.pc = "done" THEN Some(tf.dir) ELSE tf.prev,
                            !.prevMade = IF tf.pc = "done" THEN tf.made ELSE tf.prevMade,
                            !.calls = tf.calls]
    /\ UNCHANGED <<dirs, mp, ps, ft, sv>>

NextTemp ==
    \/ CreateTemporaryFileCall
    \/ CreateTemporaryFileMkdirs
    \/ CreateTemporaryFileConstruct
    \/ CreateTemporaryFileReturn

SpecTemp == Init /\ [][NextTemp]_vars

\* C9: the directory and all its ancestors exist before the temporary file
\* is constructed and whenever a handle is returned; a call for a directory
\* that exists, such as a second call for the same directory, does not fail;
\* and a call that fails has constructed no temporary file.
C9_DirectoryBeforeHandle ==
    /\ tf.pc \in {"construct", "done"} => PrefixesOf(tf.dir) \subseteq dirs
    /\ tf.handle # None => (tf.pc = "done" /\ tf.handle = Some(tf.dir))
    /\ tf.pc = "done" => tf.handle # None
    /\ tf.pc = "error" => (tf.handle = None /\ ~tf.existed /\ tf.prev # Some(tf.dir))

\* a second call for a directory that the first call made together with its
\* parent has returned a handle
C9_Witness ==
    /\ tf.pc = "done"
    /\ tf.prev = Some(tf.dir)
    /\ tf.calls = 2
    /\ tf.existed
    /\ tf.made = 0
    /\ tf.prevMade >= 2

----------------------------------------------------------------------------

Next == NextMount \/ NextPrefix \/ NextTable \/ NextStatVFS \/ NextTemp

Spec == Init /\ [][Next]_vars

====
